---- MODULE Spec2Model ----
(***************************************************************************)
(* ISPT teacher-evaluation web application (src/app.js): an Express        *)
(* server over one SQLite database (better-sqlite3).  The state is the     *)
(* database; every HTTP handler runs to completion before the next one     *)
(* starts (Node is single-threaded and better-sqlite3 is synchronous), so  *)
(* every handler is one atomic action.  req/res record the last request    *)
(* and its reply; backups is the content of the backups directory;         *)
(* session is the cookies the server has set in one browser.               *)
(*                                                                         *)
(* Averages are kept as exact fractions [sum, n] (SQLite AVG = sum/count); *)
(* ids travel in requests as strings and are converted by SQLite's column  *)
(* affinity when they meet an INTEGER column.                              *)
(***************************************************************************)
EXTENDS Integers, Sequences, FiniteSets, TLC

VARIABLES db, now, req, res, backups, session

vars == <<db, now, req, res, backups, session>>

(***************************************************************************)
(* Bounds of the model.                                                    *)
(***************************************************************************)
\* at most this many survey_response rows are ever inserted
MaxResponses == 2
\* POST /importar runs while the AUTOINCREMENT counters of the tables it
\* fills are below this value
MaxSeq == 4
\* the clock stops at this instant
MaxTime == 2

(***************************************************************************)
(* Values.                                                                 *)
(***************************************************************************)
\* SQL NULL / JS null in an id or text column
NULL == -1
NULLTEXT == "<null>"
\* a field that is not present in req.body / req.query (JS undefined)
Absent == "<undefined>"

\* a field sent twice in the form body: bodyParser.urlencoded({extended: true})
\* parses it into an array of two strings
Repeated == "<array>"

\* the anonymity threshold announced by renderPage
ANON == 5

\* JS truthiness of a request field: undefined and '' are falsy
Falsy(v) == v = Absent \/ v = ""

\* SQLite numeric affinity applied to a text parameter compared with or
\* stored into an INTEGER column: a decimal string becomes its integer
DigitValue ==
  ("0" :> 0) @@ ("1" :> 1) @@ ("2" :> 2) @@ ("3" :> 3) @@ ("4" :> 4) @@
  ("5" :> 5) @@ ("6" :> 6) @@ ("7" :> 7) @@ ("8" :> 8) @@ ("9" :> 9)

ToInteger(s) == DigitValue[s]

\* the JS idiom  x || null  followed by the binding of the parameter
OrNull(v) == IF Falsy(v) THEN NULL ELSE ToInteger(v)

\* comment || null
TextOrNull(v) == IF Falsy(v) THEN NULLTEXT ELSE v

\* JS Number(x) on a form field: undefined -> NaN, '' -> 0, a decimal
\* string -> its value, any other text -> NaN
Number(v) ==
  IF v = Absent THEN [nan |-> TRUE, v |-> 0]
  ELSE IF v = "" THEN [nan |-> FALSE, v |-> 0]
  ELSE IF v \in DOMAIN DigitValue THEN [nan |-> FALSE, v |-> DigitValue[v]]
  ELSE [nan |-> TRUE, v |-> 0]

\* [0,1,2].includes(val)
Includes012(val) == ~val.nan /\ val.v \in {0, 1, 2}

\* CHECK(value IN (0,1,2)) of survey_answer
CheckValue(v) == v \in {0, 1, 2}

(***************************************************************************)
(* Generic helpers.                                                        *)
(***************************************************************************)
\* SUM(value) over a set of survey_answer rows
RECURSIVE SumValues(_)
SumValues(S) ==
  IF S = {} THEN 0
  ELSE LET x == CHOOSE y \in S : TRUE IN x.value + SumValues(S \ {x})

\* rows of a table in rowid order
RECURSIVE ById(_)
ById(T) ==
  IF T = {} THEN <<>>
  ELSE LET m == CHOOSE r \in T : \A o \in T : r.id <= o.id
       IN <<m>> \o ById(T \ {m})

(***************************************************************************)
(* Seed data (seedOnce).  The model keeps the first entries of each list.  *)
(***************************************************************************)
SeedCourses == <<"Engenharia Informatica", "Engenharia de Minas">>
SeedSemesters == <<"1o Semestre">>
SeedYears == <<"2025">>
SeedClasses == <<"Turma A">>
SeedDisciplines ==
  <<[course |-> "Engenharia Informatica", name |-> "Algoritmos"],
    [course |-> "Engenharia de Minas", name |-> "Topografia"]>>
SeedTeachers == <<"Docente A", "Docente B">>
SeedQuestions ==
  <<[code |-> "Q1", area |-> "Preparacao"],
    [code |-> "Q2", area |-> "Preparacao"],
    [code |-> "Q3", area |-> "Metodologia"]>>

EmptyDb ==
  [course |-> {}, semester |-> {}, discipline |-> {}, teacher |-> {},
   school_year |-> {}, class_group |-> {}, teaching |-> {},
   survey_question |-> {}, survey_response |-> {}, survey_answer |-> {},
   seq |-> [t \in {"course", "semester", "discipline", "teacher",
                   "school_year", "class_group", "teaching",
                   "survey_question", "survey_response", "survey_answer"}
            |-> 0]]

\* INSERT INTO <named table> (name) VALUES (?) for each name of a list; the
\* name columns are UNIQUE, and the statement that meets a stored name throws
\* (the rows inserted before it stay: the seeding runs in no transaction)
RECURSIVE InsertNames(_, _, _)
InsertNames(d, tbl, names) ==
  IF names = <<>> THEN [db |-> d, thrown |-> FALSE]
  ELSE IF \E r \in d[tbl] : r.name = Head(names)
  THEN [db |-> d, thrown |-> TRUE]
  ELSE LET id == d.seq[tbl] + 1
           d1 == [d EXCEPT ![tbl] = @ \cup {[id |-> id, name |-> Head(names)]},
                           !.seq[tbl] = id]
       IN InsertNames(d1, tbl, Tail(names))

RECURSIVE SeedDiscRows(_, _)
SeedDiscRows(d, discs) ==
  IF discs = <<>> THEN d
  ELSE LET cid == (CHOOSE c \in d.course : c.name = Head(discs).course).id
           id == d.seq["discipline"] + 1
           d1 == [d EXCEPT !.discipline = @ \cup
                             {[id |-> id, course_id |-> cid,
                               name |-> Head(discs).name]},
                           !.seq["discipline"] = id]
       IN SeedDiscRows(d1, Tail(discs))

\* SELECT id FROM t LIMIT 1, then  row?.id || null
FirstIdOrNull(T) == IF T = {} THEN NULL ELSE ById(T)[1].id

RECURSIVE SeedTeachingRows(_, _)
SeedTeachingRows(d, i) ==
  LET allDisc == ById(d.discipline)
      allSem == ById(d.semester)
      allTeach == ById(d.teacher)
  IN IF i >= Len(allDisc) THEN d
     ELSE LET id == d.seq["teaching"] + 1
              row == [id |-> id,
                      teacher_id |-> allTeach[(i % Len(allTeach)) + 1].id,
                      discipline_id |-> allDisc[i + 1].id,
                      semester_id |-> allSem[(i % Len(allSem)) + 1].id,
                      school_year_id |-> FirstIdOrNull(d.school_year),
                      class_group_id |-> FirstIdOrNull(d.class_group)]
              d1 == [d EXCEPT !.teaching = @ \cup {row},
                              !.seq["teaching"] = id]
          IN SeedTeachingRows(d1, i + 1)

RECURSIVE SeedQuestionRows(_, _)
SeedQuestionRows(d, qs) ==
  IF qs = <<>> THEN d
  ELSE LET id == d.seq["survey_question"] + 1
           d1 == [d EXCEPT !.survey_question = @ \cup
                             {[id |-> id, code |-> Head(qs).code,
                               area |-> Head(qs).area]},
                           !.seq["survey_question"] = id]
       IN SeedQuestionRows(d1, Tail(qs))

\* the call of seedOnce at start-up: the database it leaves and whether it
\* threw; a statement that throws ends the call.  The discipline, teaching
\* and question rows are inserted only when no statement before them threw,
\* that is into a store without semesters.
seedOnceCall(d) ==
  IF Cardinality(d.course) > 0 THEN [db |-> d, thrown |-> FALSE]
  ELSE
    LET r1 == InsertNames(d, "course", SeedCourses)
        r2 == InsertNames(r1.db, "semester", SeedSemesters)
        r3 == InsertNames(r2.db, "school_year", SeedYears)
        r4 == InsertNames(r3.db, "class_group", SeedClasses)
        r6 == InsertNames(SeedDiscRows(r4.db, SeedDisciplines), "teacher",
                          SeedTeachers)
    IN IF r1.thrown THEN r1
       ELSE IF r2.thrown THEN r2
       ELSE IF r3.thrown THEN r3
       ELSE IF r4.thrown THEN r4
       ELSE IF r6.thrown THEN r6
       ELSE [db |-> SeedQuestionRows(SeedTeachingRows(r6.db, 0),
                                     SeedQuestions),
             thrown |-> FALSE]

\* the database after the call
seedOnce(d) == seedOnceCall(d).db

\* the process is started again: the schema statements change nothing and
\* seedOnce is called; an exception of it ends the process before it listens
\* (the next start then finds courses and seeds nothing)
Restart ==
  /\ db.seq["course"] + Len(SeedCourses) <= MaxSeq
  /\ req' = [op |-> "restart"]
  /\ res' = [op |-> "restart",
             status |-> IF seedOnceCall(db).thrown THEN "exception"
                        ELSE "listening"]
  /\ db' = seedOnce(db)
  /\ UNCHANGED <<now, backups, session>>

NoRequest == [op |-> "none"]

Init ==
  /\ db = seedOnce(EmptyDb)
  /\ now = 0
  /\ req = NoRequest
  /\ res = NoRequest
  /\ backups = {}
  /\ session = [ispt_admin |-> Absent, role |-> Absent]

(***************************************************************************)
(* SQL comparison and schema constraints.                                  *)
(***************************************************************************)
\* a = b in SQL: never true when an operand is NULL
SqlEq(a, b) == a # NULL /\ b # NULL /\ a = b

\* a IS b in SQL: NULL IS NULL is true
SqlIs(a, b) == a = b

Ids(T) == {r.id : r \in T}

\* a database opened with foreign keys not enforced
TeachingForeignKeysOff(d, row) == TRUE

\* FOREIGN KEY clauses of teaching (better-sqlite3 opens the database with
\* foreign keys enforced); a NULL child key is not checked
TeachingForeignKeys(d, row) ==
  /\ row.teacher_id \in Ids(d.teacher)
  /\ row.discipline_id \in Ids(d.discipline)
  /\ row.semester_id \in Ids(d.semester)
  /\ (row.school_year_id = NULL \/ row.school_year_id \in Ids(d.school_year))
  /\ (row.class_group_id = NULL \/ row.class_group_id \in Ids(d.class_group))

\* ux_teaching: a UNIQUE index treats every NULL as distinct from every
\* other value, NULL included, so only rows without NULL can conflict
UxTeachingConflict(d, row) ==
  \E x \in d.teaching :
     /\ SqlEq(x.teacher_id, row.teacher_id)
     /\ SqlEq(x.discipline_id, row.discipline_id)
     /\ SqlEq(x.semester_id, row.semester_id)
     /\ SqlEq(x.school_year_id, row.school_year_id)
     /\ SqlEq(x.class_group_id, row.class_group_id)

(***************************************************************************)
(* requireAuth                                                             *)
(***************************************************************************)
\* a guard that accepts any value of the session cookie
requireAuthPresent(cookies) == cookies.ispt_admin # Absent

\* req.cookies && req.cookies.ispt_admin === '1'
requireAuth(cookies) == cookies.ispt_admin = "1"

Redirect(op, to) == [op |-> op, status |-> 302, location |-> to]

\* the cookies of a request: after POST /login, and of a visitor
AdminCookies == [ispt_admin |-> "1", role |-> Absent]
NoCookies == [ispt_admin |-> Absent, role |-> Absent]
\* a role cookie without the session cookie, and a session cookie whose
\* value is not '1'
RoleCookies == [ispt_admin |-> Absent, role |-> "admin"]
StaleCookies == [ispt_admin |-> "0", role |-> Absent]

RequesterCookies == {NoCookies, AdminCookies, RoleCookies, StaleCookies}

(***************************************************************************)
(* POST /login and GET /logout                                             *)
(***************************************************************************)
\* process.env.ADMIN_PASSWORD || 'ispt-admin'
ADMIN_PASSWORD == "ispt-admin"

\* password === ADMIN_PASSWORD: res.cookie('ispt_admin', '1') and redirect
\* to /admin; otherwise the error page, and no cookie is set
PostLogin(cookies, password) ==
  /\ req' = [op |-> "POST /login", cookies |-> cookies,
             body |-> [password |-> password]]
  /\ IF password = ADMIN_PASSWORD
     THEN /\ session' = [session EXCEPT !.ispt_admin = "1"]
          /\ res' = Redirect("POST /login", "/admin")
     ELSE /\ session' = session
          /\ res' = [op |-> "POST /login", status |-> 200,
                     isAdmin |-> requireAuth(cookies)]
  /\ UNCHANGED <<db, now, backups>>

\* res.clearCookie('ispt_admin'); res.redirect('/')
GetLogout(cookies) ==
  /\ req' = [op |-> "GET /logout", cookies |-> cookies]
  /\ session' = [session EXCEPT !.ispt_admin = Absent]
  /\ res' = Redirect("GET /logout", "/")
  /\ UNCHANGED <<db, now, backups>>

(***************************************************************************)
(* POST /submit                                                            *)
(***************************************************************************)
QuestionIds == 1..Len(SeedQuestions)

\* the field check without its first operand
MissingRequiredNoCourse(body) ==
  \/ Falsy(body.semester_id)
  \/ Falsy(body.discipline_id)
  \/ Falsy(body.teacher_id)

\* if (!course_id || !semester_id || !discipline_id || !teacher_id)
MissingRequired(body) ==
  \/ Falsy(body.course_id)
  \/ Falsy(body.semester_id)
  \/ Falsy(body.discipline_id)
  \/ Falsy(body.teacher_id)

\* the tuple the handler binds to the SELECT and to the INSERT
SubmittedTuple(body) ==
  [teacher_id |-> ToInteger(body.teacher_id),
   discipline_id |-> ToInteger(body.discipline_id),
   semester_id |-> ToInteger(body.semester_id),
   school_year_id |-> OrNull(body.school_year_id),
   class_group_id |-> OrNull(body.class_group_id)]

\* WHERE clause of the teaching lookup
TeachingMatches(x, tup) ==
  /\ SqlEq(x.teacher_id, tup.teacher_id)
  /\ SqlEq(x.discipline_id, tup.discipline_id)
  /\ SqlEq(x.semester_id, tup.semester_id)
  /\ (SqlIs(x.school_year_id, tup.school_year_id)
        \/ SqlEq(x.school_year_id, tup.school_year_id))
  /\ (SqlIs(x.class_group_id, tup.class_group_id)
        \/ SqlEq(x.class_group_id, tup.class_group_id))

\* db.prepare(SELECT * FROM teaching WHERE ...).get(): the first match
FindTeaching(d, tup) ==
  LET M == {x \in d.teaching : TeachingMatches(x, tup)}
  IN IF M = {} THEN NULL ELSE ById(M)[1].id

\* INSERT INTO teaching ... (plain INSERT: a constraint failure throws)
InsertTeaching(d, tup) ==
  LET id == d.seq["teaching"] + 1
      row == [id |-> id] @@ tup
  IN IF ~TeachingForeignKeys(d, row) \/ UxTeachingConflict(d, row)
     THEN [db |-> d, thrown |-> TRUE, id |-> NULL]
     ELSE [db |-> [d EXCEPT !.teaching = @ \cup {row},
                            !.seq["teaching"] = id],
           thrown |-> FALSE, id |-> id]

\* Statement.run(...) spreads an array argument into positional parameters:
\* two values for the single comment placeholder make run() throw before the
\* statement executes
Bindable(v) == v # Repeated

\* INSERT INTO survey_response (teaching_id, submitted_at, comment)
InsertResponse(d, teachingId, t, comment) ==
  LET id == d.seq["survey_response"] + 1
  IN IF ~Bindable(comment)
     THEN [db |-> d, thrown |-> TRUE, id |-> NULL]
     ELSE [db |-> [d EXCEPT !.survey_response = @ \cup
                              {[id |-> id, teaching_id |-> teachingId,
                                submitted_at |-> t, comment |-> comment]},
                            !.seq["survey_response"] = id],
           thrown |-> FALSE, id |-> id]

\* INSERT INTO survey_answer (response_id, question_id, value)
InsertAnswer(d, rid, qid, v) ==
  LET id == d.seq["survey_answer"] + 1
  IN IF ~CheckValue(v)
     THEN [db |-> d, thrown |-> TRUE]
     ELSE [db |-> [d EXCEPT !.survey_answer = @ \cup
                              {[id |-> id, response_id |-> rid,
                                question_id |-> qid, value |-> v]},
                            !.seq["survey_answer"] = id],
           thrown |-> FALSE]

\* an iteration that clamps the number into 0..2 instead of skipping it
StoreAnswerClamped(st, rid, qid, raw) ==
  LET val == Number(raw)
  IN IF val.nan THEN st
     ELSE InsertAnswer(st.db, rid, qid, IF val.v > 2 THEN 2 ELSE val.v)

\* one iteration of qs.forEach: st is [db, thrown]
StoreAnswer(st, rid, qid, raw) ==
  LET val == Number(raw)
  IN IF ~Includes012(val) THEN st ELSE InsertAnswer(st.db, rid, qid, val.v)

\* qs.forEach(...) over SELECT id FROM survey_question; an exception ends it
RECURSIVE StoreAnswers(_, _, _, _)
StoreAnswers(st, qs, rid, answers) ==
  IF qs = <<>> \/ st.thrown THEN st
  ELSE LET qid == Head(qs).id
           raw == IF qid \in DOMAIN answers THEN answers[qid] ELSE Absent
       IN StoreAnswers(StoreAnswer(st, rid, qid, raw), Tail(qs), rid, answers)

\* the handler after the required-field check; every statement commits on
\* its own (no transaction), so what was written before a throw stays
SubmitRun(d, body, t) ==
  LET tup == SubmittedTuple(body)
      found == FindTeaching(d, tup)
      ins == IF found = NULL THEN InsertTeaching(d, tup)
             ELSE [db |-> d, thrown |-> FALSE, id |-> found]
  IN IF ins.thrown THEN [db |-> d, status |-> 500]
     ELSE LET r == InsertResponse(ins.db, ins.id, t,
                                  TextOrNull(body.comment))
          IN IF r.thrown THEN [db |-> r.db, status |-> 500]
             ELSE LET a == StoreAnswers([db |-> r.db, thrown |-> FALSE],
                                        ById(r.db.survey_question), r.id,
                                        body.answers)
                  IN [db |-> a.db, status |-> IF a.thrown THEN 500 ELSE 200]

\* a handler that stores who sent the form: the comment of an admin's
\* submission is replaced by a mark
SubmitHandlerSigned(d, cookies, body, t) ==
  IF MissingRequired(body)
  THEN [db |-> d, res |-> [op |-> "POST /submit", status |-> 400]]
  ELSE LET r == SubmitRun(d, [body EXCEPT !.comment =
                                 IF requireAuth(cookies) THEN "admin" ELSE @],
                          t)
       IN [db |-> r.db, res |-> [op |-> "POST /submit", status |-> r.status]]

\* the handler as a function of the database and the request: the field
\* check, the statements, and the page rendered with the admin menu or not
SubmitHandler(d, cookies, body, t) ==
  IF MissingRequired(body)
  THEN [db |-> d, res |-> [op |-> "POST /submit", status |-> 400]]
  ELSE LET r == SubmitRun(d, body, t)
       IN [db |-> r.db,
           res |-> IF r.status = 200
                   THEN [op |-> "POST /submit", status |-> 200,
                         isAdmin |-> requireAuth(cookies)]
                   ELSE [op |-> "POST /submit", status |-> r.status]]

SubmitAs(cookies, body, t) ==
  /\ db.seq["survey_response"] < MaxResponses
  /\ t >= now /\ t <= MaxTime
  /\ now' = t
  /\ req' = [op |-> "POST /submit", cookies |-> cookies, body |-> body]
  /\ LET h == SubmitHandler(db, cookies, body, t)
     IN db' = h.db /\ res' = h.res
  /\ UNCHANGED <<backups, session>>

\* a submission by a visitor
Submit(body, t) == SubmitAs(NoCookies, body, t)

(***************************************************************************)
(* Request bodies of POST /submit.                                         *)
(***************************************************************************)
SubmitBody(course, sem, year, disc, teacher, class, comment, answers) ==
  [course_id |-> course, semester_id |-> sem, school_year_id |-> year,
   discipline_id |-> disc, teacher_id |-> teacher, class_group_id |-> class,
   comment |-> comment, answers |-> answers]

\* what a form field q_<id> can carry
AnswerTokens == {Absent, "", "0", "1", "2", "3", "x"}

Answers(a1, a2, a3) == (1 :> a1) @@ (2 :> a2) @@ (3 :> a3)

\* the first question takes every token, the others a few
AnswerVectors ==
  {Answers(a1, a2, a3) : a1 \in AnswerTokens, a2 \in {"2", "3"},
                         a3 \in {Absent, "1"}}

\* bodies whose required fields are missing, empty or present
MissingFieldBodies ==
  {SubmitBody(c, s, "1", d, t, "1", Absent, Answers("2", "0", "1")) :
     c \in {Absent, "", "1"}, s \in {Absent, "1"},
     d \in {"", "1"}, t \in {Absent, "1"}}

\* bodies that vary the answers
AnswerBodies ==
  {SubmitBody("1", "1", "1", "1", "1", k, Absent, a) :
     k \in {"1"}, a \in AnswerVectors}

IntakeBodies == AnswerBodies \cup MissingFieldBodies

(***************************************************************************)
(* POST /importar                                                          *)
(***************************************************************************)
\* String.prototype.toLowerCase on the sheet names that occur
ToLowerCase(s) ==
  CASE s = "Cursos" -> "cursos"
    [] s = "Docentes" -> "docentes"
    [] s = "Disciplinas" -> "disciplinas"
    [] s = "Leccionacao" -> "leccionacao"
    [] OTHER -> s

\* String.prototype.trim on the cell texts that occur
Trim(s) ==
  CASE s = " Docente A " -> "Docente A"
    [] s = "Turma A " -> "Turma A"
    [] s = "  " -> ""
    [] OTHER -> s

\* String(row.getCell(i).value || '').trim(); a row shorter than i has an
\* empty cell there
Cell(row, i) == IF i <= Len(row) THEN Trim(row[i]) ELSE ""

\* wb.worksheets.find(ws => (ws.name || '').toLowerCase() === name)
getSheet(wb, name) ==
  LET S == {i \in DOMAIN wb.worksheets :
              ToLowerCase(wb.worksheets[i].name) = name}
  IN IF S = {} THEN <<>>
     ELSE <<wb.worksheets[CHOOSE i \in S : \A j \in S : i <= j]>>

\* a wipe without its DELETE FROM teacher
WipeAllButTeachers(d) ==
  [d EXCEPT !.survey_answer = {}, !.survey_response = {}, !.teaching = {},
            !.discipline = {}, !.course = {}]

\* the DELETE statements of the wipe option
WipeAll(d) ==
  [d EXCEPT !.survey_answer = {}, !.survey_response = {}, !.teaching = {},
            !.discipline = {}, !.teacher = {}, !.course = {}]

\* an INSERT that does not look at the names stored
InsertName(d, tbl, name) ==
  LET id == d.seq[tbl] + 1
  IN [d EXCEPT ![tbl] = @ \cup {[id |-> id, name |-> name]}, !.seq[tbl] = id]

\* INSERT OR IGNORE INTO course/teacher (name): name is UNIQUE
InsertOrIgnoreName(d, tbl, name) ==
  IF \E r \in d[tbl] : r.name = name THEN d
  ELSE LET id == d.seq[tbl] + 1
       IN [d EXCEPT ![tbl] = @ \cup {[id |-> id, name |-> name]},
                    !.seq[tbl] = id]

\* INSERT OR IGNORE INTO discipline (course_id, name): UNIQUE(course_id, name)
InsertOrIgnoreDiscipline(d, cid, name) ==
  IF \E r \in d.discipline : r.course_id = cid /\ r.name = name THEN d
  ELSE LET id == d.seq["discipline"] + 1
       IN [d EXCEPT !.discipline = @ \cup
                      {[id |-> id, course_id |-> cid, name |-> name]},
                    !.seq["discipline"] = id]

\* INSERT OR IGNORE INTO teaching: ignored only on a ux_teaching conflict
InsertOrIgnoreTeaching(d, tup) ==
  LET id == d.seq["teaching"] + 1
      row == [id |-> id] @@ tup
  IN IF UxTeachingConflict(d, row) THEN d
     ELSE [d EXCEPT !.teaching = @ \cup {row}, !.seq["teaching"] = id]

\* SELECT id FROM <table> WHERE name=?  then  row?.id || null
IdByName(T, name) ==
  IF \E r \in T : r.name = name
  THEN (CHOOSE r \in T : r.name = name).id
  ELSE NULL

\* eachRow callbacks; rows[1] is the header
RECURSIVE ImportNames(_, _, _, _)
ImportNames(d, tbl, rows, idx) ==
  IF idx > Len(rows) THEN d
  ELSE LET name == Cell(rows[idx], 1)
           d1 == IF idx = 1 \/ name = "" THEN d
                 ELSE InsertOrIgnoreName(d, tbl, name)
       IN ImportNames(d1, tbl, rows, idx + 1)

ImportDisciplineRow(d, row) ==
  LET courseName == Cell(row, 1)
      discName == Cell(row, 2)
  IN IF courseName = "" \/ discName = "" THEN d
     ELSE LET d1 == InsertOrIgnoreName(d, "course", courseName)
              cid == IdByName(d1.course, courseName)
          IN IF cid = NULL THEN d1
             ELSE InsertOrIgnoreDiscipline(d1, cid, discName)

RECURSIVE ImportDisciplines(_, _, _)
ImportDisciplines(d, rows, idx) ==
  IF idx > Len(rows) THEN d
  ELSE ImportDisciplines(IF idx = 1 THEN d
                         ELSE ImportDisciplineRow(d, rows[idx]),
                         rows, idx + 1)

ImportTeachingRow(d, row) ==
  LET courseName == Cell(row, 1)
      discName == Cell(row, 2)
      teachName == Cell(row, 3)
      yearName == Cell(row, 4)
      semName == Cell(row, 5)
      className == Cell(row, 6)
  IN IF courseName = "" \/ discName = "" \/ teachName = "" \/ semName = ""
     THEN d
     ELSE
       LET d1 == InsertOrIgnoreName(d, "course", courseName)
           d2 == InsertOrIgnoreName(d1, "teacher", teachName)
           cid == IdByName(d2.course, courseName)
       IN IF cid = NULL THEN d2
          ELSE
            LET d3 == InsertOrIgnoreDiscipline(d2, cid, discName)
                discs == {r \in d3.discipline :
                            r.course_id = cid /\ r.name = discName}
                disc == IF discs = {} THEN NULL
                        ELSE (CHOOSE r \in discs : TRUE).id
                teach == IdByName(d3.teacher, teachName)
                semester == IdByName(d3.semester, semName)
                year == IF yearName # ""
                        THEN IdByName(d3.school_year, yearName) ELSE NULL
                klass == IF className # ""
                         THEN IdByName(d3.class_group, className) ELSE NULL
            IN IF teach # NULL /\ disc # NULL /\ semester # NULL
               THEN InsertOrIgnoreTeaching(d3,
                      [teacher_id |-> teach, discipline_id |-> disc,
                       semester_id |-> semester, school_year_id |-> year,
                       class_group_id |-> klass])
               ELSE d3

RECURSIVE ImportTeachings(_, _, _)
ImportTeachings(d, rows, idx) ==
  IF idx > Len(rows) THEN d
  ELSE ImportTeachings(IF idx = 1 THEN d
                       ELSE ImportTeachingRow(d, rows[idx]),
                       rows, idx + 1)

\* a statement of the transaction can fail for a reason outside the request
\* (database locked by another process, disk full): never, at the first
\* insert of the reference rows, or at the last insert of the assignments
NoFault == "none"
Faults == {NoFault, "reference rows", "teaching rows"}

\* a transaction body that runs the DELETE statements whatever the option
ImportTrxAlwaysWipe(d, wipeAll, shCursos, shDocentes, shDisciplinas, shLeccionacao, fault) ==
  LET d0 == WipeAll(d)
      d1 == ImportNames(d0, "course", shCursos.rows, 1)
      d2 == ImportNames(d1, "teacher", shDocentes.rows, 1)
      d3 == ImportDisciplines(d2, shDisciplinas.rows, 1)
  IN IF fault = "reference rows" THEN [db |-> d0, thrown |-> TRUE]
     ELSE IF fault = "teaching rows" THEN [db |-> d3, thrown |-> TRUE]
     ELSE [db |-> ImportTeachings(d3, shLeccionacao.rows, 1),
           thrown |-> FALSE]

\* the body of db.transaction(() => { ... }): the database as written so
\* far and whether a statement threw
ImportTrx(d, wipeAll, shCursos, shDocentes, shDisciplinas, shLeccionacao, fault) ==
  LET d0 == IF wipeAll THEN WipeAll(d) ELSE d
      d1 == ImportNames(d0, "course", shCursos.rows, 1)
      d2 == ImportNames(d1, "teacher", shDocentes.rows, 1)
      d3 == ImportDisciplines(d2, shDisciplinas.rows, 1)
  IN IF fault = "reference rows" THEN [db |-> d0, thrown |-> TRUE]
     ELSE IF fault = "teaching rows" THEN [db |-> d3, thrown |-> TRUE]
     ELSE [db |-> ImportTeachings(d3, shLeccionacao.rows, 1),
           thrown |-> FALSE]

\* a wrapper that commits what was written when the function throws
TransactionNoRollback(d, r) == r

\* db.transaction(fn)(): BEGIN, fn, COMMIT; ROLLBACK and rethrow when fn
\* throws.  d is the database at BEGIN, r the outcome of fn
Transaction(d, r) == IF r.thrown THEN [db |-> d, thrown |-> TRUE] ELSE r

\* the handler behind requireAuth; upload is [file, wipe_all, wb]
ImportRun(d, cookies, upload, fault) ==
  LET op == "POST /importar"
  IN IF cookies.role # "admin" /\ cookies.ispt_admin # "1"
     THEN [db |-> d, res |-> [op |-> op, status |-> 403]]
     ELSE IF ~upload.file
     THEN [db |-> d, res |-> [op |-> op, status |-> 200, page |-> "no file"]]
     ELSE IF ~upload.wb.readable
     THEN [db |-> d, res |-> [op |-> op, status |-> 200, page |-> "error"]]
     ELSE
       LET shCursos == getSheet(upload.wb, "cursos")
           shDocentes == getSheet(upload.wb, "docentes")
           shDisciplinas == getSheet(upload.wb, "disciplinas")
           shLeccionacao == getSheet(upload.wb, "leccionacao")
       IN IF shCursos = <<>> \/ shDocentes = <<>> \/ shDisciplinas = <<>>
               \/ shLeccionacao = <<>>
          THEN [db |-> d,
                res |-> [op |-> op, status |-> 200, page |-> "missing sheets"]]
          ELSE LET r == Transaction(d,
                          ImportTrx(d, upload.wipe_all = "on", shCursos[1],
                                    shDocentes[1], shDisciplinas[1],
                                    shLeccionacao[1], fault))
               IN [db |-> r.db,
                   res |-> [op |-> op, status |-> 200,
                            page |-> IF r.thrown THEN "error" ELSE "ok"]]

ImportWith(cookies, upload, fault) ==
  /\ \A t \in {"course", "teacher", "discipline", "teaching"} :
        db.seq[t] < MaxSeq
  /\ req' = [op |-> "POST /importar", cookies |-> cookies, upload |-> upload,
             fault |-> fault]
  /\ now' = now
  /\ IF ~requireAuth(cookies)
     THEN /\ res' = Redirect("POST /importar", "/login")
          /\ db' = db
     ELSE LET r == ImportRun(db, cookies, upload, fault)
          IN db' = r.db /\ res' = r.res
  /\ UNCHANGED <<backups, session>>

\* an import during which no statement fails
Import(cookies, upload) == ImportWith(cookies, upload, NoFault)

(***************************************************************************)
(* Uploads of POST /importar.                                              *)
(***************************************************************************)
Sheet(name, rows) == [name |-> name, rows |-> rows]

Workbook(cursos, docentes, disciplinas, leccionacao) ==
  [readable |-> TRUE,
   worksheets |->
     <<Sheet("Cursos", <<<<"name">>>> \o cursos),
       Sheet("docentes", <<<<"name">>>> \o docentes),
       Sheet("disciplinas", <<<<"course", "name">>>> \o disciplinas),
       Sheet("leccionacao",
             <<<<"course", "discipline", "teacher", "year", "semester",
                 "class_group">>>> \o leccionacao)>>]

\* leccionacao rows: an assignment that is seeded, one without class group,
\* one without school year, one with an unknown class and a new teacher
LeccionacaoRows ==
  {<<"Engenharia Informatica", "Algoritmos", "Docente A", "2025",
     "1o Semestre", "Turma A ">>,
   <<"Engenharia Informatica", "Algoritmos", " Docente A ", "2025",
     "1o Semestre", "">>,
   <<"Engenharia de Minas", "Topografia", "Docente B", "",
     "1o Semestre", "Turma A">>,
   <<"Engenharia de Minas", "Topografia", "Docente C", "2025",
     "1o Semestre", "Turma Z">>}

TeachingBooks == {Workbook(<<>>, <<>>, <<>>, <<r>>) : r \in LeccionacaoRows}

Upload(wipe, wb) == [wb |-> wb, file |-> TRUE, wipe_all |-> wipe]

(***************************************************************************)
(* The aggregation queries.  query is req.query: the six filters, each a   *)
(* string or absent.                                                       *)
(***************************************************************************)
Query(course, sem, disc, teacher, year, class) ==
  [course_id |-> course, semester_id |-> sem, discipline_id |-> disc,
   teacher_id |-> teacher, school_year_id |-> year, class_group_id |-> class]

\* (COALESCE(?, col) = col)
CoalesceEq(param, col) == SqlEq(IF param # NULL THEN param ELSE col, col)

\* the WHERE clause shared by the aggregation queries, on a teaching row t
\* joined with its discipline row disc; the parameters are  x || null
Where(query, t, disc) ==
  /\ CoalesceEq(OrNull(query.course_id), disc.course_id)
  /\ CoalesceEq(OrNull(query.semester_id), t.semester_id)
  /\ CoalesceEq(OrNull(query.discipline_id), t.discipline_id)
  /\ CoalesceEq(OrNull(query.teacher_id), t.teacher_id)
  /\ CoalesceEq(OrNull(query.school_year_id), t.school_year_id)
  /\ CoalesceEq(OrNull(query.class_group_id), t.class_group_id)

\* FROM survey_response r JOIN teaching t ON t.id = r.teaching_id
\*                        JOIN discipline d ON d.id = t.discipline_id WHERE ...
SelectedResponses(d, query) ==
  {r \in d.survey_response :
     \E t \in d.teaching : \E disc \in d.discipline :
        /\ t.id = r.teaching_id
        /\ disc.id = t.discipline_id
        /\ Where(query, t, disc)}

\* FROM survey_answer a JOIN survey_response r ON r.id = a.response_id ...
SelectedAnswers(d, query) ==
  LET R == Ids(SelectedResponses(d, query))
  IN {a \in d.survey_answer : a.response_id \in R}

\* AVG(value) of a non-empty group, as the exact fraction sum/n
Avg(S) == [sum |-> SumValues(S), n |-> Cardinality(S)]

\* ORDER BY r.submitted_at DESC over {comment, submitted_at} rows
RECURSIVE OrderBySubmittedDesc(_)
OrderBySubmittedDesc(R) ==
  IF R = {} THEN <<>>
  ELSE LET m == CHOOSE r \in R :
                  \A o \in R : \/ r.submitted_at > o.submitted_at
                               \/ (r.submitted_at = o.submitted_at
                                     /\ r.id <= o.id)
       IN <<[comment |-> m.comment, submitted_at |-> m.submitted_at]>>
            \o OrderBySubmittedDesc(R \ {m})

\* WHERE r.comment IS NOT NULL AND r.comment <> '' ... ORDER BY ... DESC
SelectedComments(d, query) ==
  OrderBySubmittedDesc({r \in SelectedResponses(d, query) :
                          r.comment # NULLTEXT /\ r.comment # ""})

\* GET /api/stats: rows = SELECT question_id, AVG(value) ... GROUP BY question_id
StatsRows(d, query) ==
  LET A == SelectedAnswers(d, query)
  IN {[question_id |-> q, avg_val |-> Avg({a \in A : a.question_id = q})] :
        q \in {a.question_id : a \in A}}

StatsReply(d, query) ==
  [op |-> "GET /api/stats", status |-> 200,
   rows |-> StatsRows(d, query),
   questions |-> ById(d.survey_question),
   comments |-> SelectedComments(d, query)]

\* GET /api/dashboard: areas = SELECT q.area, AVG(a.value) ... GROUP BY q.area
AreaOf(d, qid) == (CHOOSE q \in d.survey_question : q.id = qid).area

DashboardAreas(d, query) ==
  LET A == {a \in SelectedAnswers(d, query) :
              a.question_id \in Ids(d.survey_question)}
  IN {[area |-> ar,
       media |-> Avg({a \in A : AreaOf(d, a.question_id) = ar})] :
        ar \in {AreaOf(d, a.question_id) : a \in A}}

\* substr(r.submitted_at, 1, 10): the day of an instant (two instants a day)
Dia(t) == t \div 2

DashboardTimeseries(d, query) ==
  LET R == SelectedResponses(d, query)
  IN {[dia |-> day,
       c |-> Cardinality({r \in R : Dia(r.submitted_at) = day})] :
        day \in {Dia(r.submitted_at) : r \in R}}

\* AVG over no row is NULL
AvgOrNull(S) == IF S = {} THEN [sum |-> 0, n |-> 0] ELSE Avg(S)

DashboardReply(d, query) ==
  LET R == SelectedResponses(d, query)
      T == {t \in d.teaching : t.id \in {r.teaching_id : r \in R}}
      C == SelectedComments(d, query)
  IN [op |-> "GET /api/dashboard", status |-> 200,
      totalResponses |-> Cardinality(R),
      teachersEvaluated |-> Cardinality({t.teacher_id : t \in T}),
      avgOverall |-> AvgOrNull(SelectedAnswers(d, query)),
      areas |-> DashboardAreas(d, query),
      timeseries |-> DashboardTimeseries(d, query),
      comments |-> SubSeq(C, 1, IF Len(C) < 12 THEN Len(C) ELSE 12)]

\* GET /export/pdf: totals and byQuestionRaw (the figures the document prints)
PdfByQuestion(d, query) ==
  LET A == {a \in SelectedAnswers(d, query) :
              a.question_id \in Ids(d.survey_question)}
  IN {[id |-> q,
       c0 |-> Cardinality({a \in A : a.question_id = q /\ a.value = 0}),
       c1 |-> Cardinality({a \in A : a.question_id = q /\ a.value = 1}),
       c2 |-> Cardinality({a \in A : a.question_id = q /\ a.value = 2}),
       total |-> Cardinality({a \in A : a.question_id = q}),
       avg_val |-> Avg({a \in A : a.question_id = q})] :
        q \in {a.question_id : a \in A}}

\* items: the rows with answers, as {code, avg}; the id tells apart the rows
\* and gives the order of GROUP BY q.id
Items(d, byQuestion) ==
  {[id |-> q.id,
    code |-> (CHOOSE sq \in d.survey_question : sq.id = q.id).code,
    avg |-> q.avg_val] : q \in {r \in byQuestion : r.total > 0}}

\* a.avg < b.avg on the exact fractions
LessAvg(a, b) == a.avg.sum * b.avg.n < b.avg.sum * a.avg.n

\* [...items].sort((a,b) => b.avg - a.avg): the sort is stable and items are
\* in the order of byQuestion, itself sorted by mean downwards from the
\* order of the ids
RECURSIVE SortDesc(_)
SortDesc(I) ==
  IF I = {} THEN <<>>
  ELSE LET m == CHOOSE i \in I :
                  \A o \in I : \/ LessAvg(o, i)
                               \/ (~LessAvg(i, o) /\ i.id <= o.id)
       IN <<m>> \o SortDesc(I \ {m})

\* [...items].sort((a,b) => a.avg - b.avg): equal means keep the order they
\* have in byQuestion
RECURSIVE SortAsc(_)
SortAsc(I) ==
  IF I = {} THEN <<>>
  ELSE LET m == CHOOSE i \in I :
                  \A o \in I : \/ LessAvg(i, o)
                               \/ (~LessAvg(o, i) /\ i.id <= o.id)
       IN <<m>> \o SortAsc(I \ {m})

\* i.avg >= STRONG_TH (1.5) and i.avg < WEAK_TH (1.0)
IsStrong(i) == 2 * i.avg.sum >= 3 * i.avg.n
IsWeak(i) == i.avg.sum < i.avg.n

TOPK == 3
TOPK_STR == 5
TOPK_FALLBACK == 3

\* arr.slice(0, k)
Slice(arr, k) == SubSeq(arr, 1, IF Len(arr) < k THEN Len(arr) ELSE k)

\* the codes a list of the document prints, in order
Codes(arr) == [k \in DOMAIN arr |-> arr[k].code]

\* renderDynamicTrends: the lists printed after "Pontos fortes" and "Pontos
\* fracos" (none when no question has answers)
renderDynamicTrends(d, byQuestion) ==
  LET items == Items(d, byQuestion)
      desc == SortDesc(items)
      asc == SortAsc(items)
      strengths == SelectSeq(desc, IsStrong)
      weaknesses == SelectSeq(asc, IsWeak)
  IN [strengths |-> Codes(IF strengths = <<>> THEN Slice(desc, TOPK)
                          ELSE strengths),
      weaknesses |-> Codes(IF weaknesses = <<>> THEN Slice(asc, TOPK)
                           ELSE weaknesses)]

\* renderDynamicConclusions: the lists printed under "Boas práticas a
\* manter" and under the areas to improve
renderDynamicConclusions(d, byQuestion) ==
  LET items == Items(d, byQuestion)
      desc == SortDesc(items)
      asc == SortAsc(items)
      strengths == Slice(SelectSeq(desc, IsStrong), TOPK_STR)
      weaknesses == Slice(SelectSeq(asc, IsWeak), TOPK_STR)
  IN [strengths |-> Codes(IF strengths = <<>> THEN Slice(desc, TOPK_FALLBACK)
                          ELSE strengths),
      weaknesses |-> Codes(IF weaknesses = <<>>
                           THEN Slice(asc, TOPK_FALLBACK) ELSE weaknesses)]

PdfReply(d, query) ==
  LET A == SelectedAnswers(d, query)
  IN [op |-> "GET /export/pdf", status |-> 200,
      total_resp |-> Cardinality({a.response_id : a \in A}),
      media_global |-> AvgOrNull(A),
      byQuestion |-> PdfByQuestion(d, query),
      trends |-> renderDynamicTrends(d, PdfByQuestion(d, query)),
      conclusions |-> renderDynamicConclusions(d, PdfByQuestion(d, query))]

\* a route that empties the response tables once it has replied
GetPurging(op, cookies, query, reply) ==
  /\ req' = [op |-> op, cookies |-> cookies, query |-> query]
  /\ res' = IF requireAuth(cookies) THEN reply ELSE Redirect(op, "/login")
  /\ db' = [db EXCEPT !.survey_answer = {}, !.survey_response = {}]
  /\ UNCHANGED <<now, backups, session>>

\* a read-only route behind requireAuth
Get(op, cookies, query, reply) ==
  /\ req' = [op |-> op, cookies |-> cookies, query |-> query]
  /\ res' = IF requireAuth(cookies) THEN reply ELSE Redirect(op, "/login")
  /\ UNCHANGED <<db, now, backups, session>>

GetStats(cookies, query) ==
  Get("GET /api/stats", cookies, query, StatsReply(db, query))

GetDashboard(cookies, query) ==
  Get("GET /api/dashboard", cookies, query, DashboardReply(db, query))

GetPdf(cookies, query) ==
  Get("GET /export/pdf", cookies, query, PdfReply(db, query))

\* GET /api/disciplinas: SELECT id, name FROM discipline WHERE course_id = ?
\* (items as a set: the ORDER BY name of the reply is not represented)
DisciplinasReply(d, query) ==
  [op |-> "GET /api/disciplinas", status |-> 200,
   items |-> IF Falsy(query.course_id) THEN {}
             ELSE {[id |-> x.id, name |-> x.name] :
                     x \in {y \in d.discipline :
                              SqlEq(y.course_id, ToInteger(query.course_id))}}]

\* GET /api/docentes: SELECT DISTINCT te.id, te.name FROM teaching t JOIN
\* teacher te ... WHERE t.discipline_id = ?
DocentesReply(d, query) ==
  [op |-> "GET /api/docentes", status |-> 200,
   items |-> IF Falsy(query.discipline_id) THEN {}
             ELSE {[id |-> te.id, name |-> te.name] :
                     te \in {x \in d.teacher :
                               \E t \in d.teaching :
                                  /\ x.id = t.teacher_id
                                  /\ SqlEq(t.discipline_id,
                                           ToInteger(query.discipline_id))}}]

\* one worksheet row of GET /export/excel: the response, its answers by
\* question ('' for a question without answer) and its comment
ExcelRow(d, r) ==
  [submitted_at |-> r.submitted_at,
   teaching_id |-> r.teaching_id,
   values |-> [q \in Ids(d.survey_question) |->
                 LET A == {a \in d.survey_answer :
                             a.response_id = r.id /\ a.question_id = q}
                 IN IF A = {} THEN NULL ELSE (CHOOSE a \in A : TRUE).value],
   comment |-> IF r.comment = NULLTEXT THEN "" ELSE r.comment]

\* ... ORDER BY r.submitted_at DESC, one worksheet row per response
RECURSIVE ExcelRows(_, _)
ExcelRows(d, R) ==
  IF R = {} THEN <<>>
  ELSE LET m == CHOOSE r \in R :
                  \A o \in R : \/ r.submitted_at > o.submitted_at
                               \/ (r.submitted_at = o.submitted_at
                                     /\ r.id <= o.id)
       IN <<ExcelRow(d, m)>> \o ExcelRows(d, R \ {m})

\* the export joins course, semester and teacher (always present) and
\* filters with the same WHERE clause
ExcelReply(d, query) ==
  [op |-> "GET /export/excel", status |-> 200,
   rows |-> ExcelRows(d, SelectedResponses(d, query))]

\* GET /admin and GET /dashboard: the pages with the filter lists
PageReply(op, d) ==
  [op |-> op, status |-> 200, courses |-> d.course,
   semesters |-> d.semester, years |-> d.school_year,
   classes |-> d.class_group]

GetDisciplinas(cookies, query) ==
  Get("GET /api/disciplinas", cookies, query, DisciplinasReply(db, query))

GetDocentes(cookies, query) ==
  Get("GET /api/docentes", cookies, query, DocentesReply(db, query))

GetExcel(cookies, query) ==
  Get("GET /export/excel", cookies, query, ExcelReply(db, query))

GetAdmin(cookies, query) ==
  Get("GET /admin", cookies, query, PageReply("GET /admin", db))

GetDashboardPage(cookies, query) ==
  Get("GET /dashboard", cookies, query, PageReply("GET /dashboard", db))

(***************************************************************************)
(* Backups: the files of the backups directory.  A file is named after the *)
(* instant of its creation and has the extension sqlite or sqlite.gz.      *)
(***************************************************************************)
\* Number(process.env.BACKUPS_MAX || 10), with BACKUPS_MAX=2 in the environment
BACKUPS_MAX == 2

BackupFile(stamp, ext) == [stamp |-> stamp, ext |-> ext]

\* .sort((a,b) => b.mtime - a.mtime): the .gz of a backup is written after
\* its .sqlite
RECURSIVE NewestFirst(_)
NewestFirst(F) ==
  IF F = {} THEN <<>>
  ELSE LET m == CHOOSE f \in F :
                  \A o \in F : \/ f.stamp > o.stamp
                               \/ (f.stamp = o.stamp
                                     /\ (f.ext = o.ext \/ f.ext = "sqlite.gz"))
       IN <<m>> \o NewestFirst(F \ {m})

\* the files whose name matches /^[\w.\-]+\.(sqlite|sqlite\.gz)$/
listBackups(F) ==
  NewestFirst({f \in F : f.ext \in {"sqlite", "sqlite.gz"}})

\* a retention that deletes the old .sqlite files and leaves their .gz
pruneBackupsSqliteOnly(F) ==
  LET IsSqlite(f) == f.ext = "sqlite"
      files == SelectSeq(listBackups(F), IsSqlite)
  IN IF Len(files) <= BACKUPS_MAX THEN [files |-> F, removed |-> 0]
     ELSE LET toDelete == {files[i] : i \in (BACKUPS_MAX + 1)..Len(files)}
          IN [files |-> F \ toDelete, removed |-> Cardinality(toDelete)]

\* keeps the maxKeep newest .sqlite files, deletes the others with their .gz
pruneBackups(F) ==
  LET IsSqlite(f) == f.ext = "sqlite"
      files == SelectSeq(listBackups(F), IsSqlite)
  IN IF Len(files) <= BACKUPS_MAX THEN [files |-> F, removed |-> 0]
     ELSE LET toDelete == {files[i] : i \in (BACKUPS_MAX + 1)..Len(files)}
          IN [files |-> (F \ toDelete)
                          \ {BackupFile(f.stamp, "sqlite.gz") : f \in toDelete},
              removed |-> Cardinality(toDelete)]

\* GET /importar: the page lists the backups
GetImportar(cookies, query) ==
  Get("GET /importar", cookies, query,
      [op |-> "GET /importar", status |-> 200,
       backups |-> listBackups(backups)])

\* POST /backup at instant t: snapshot, .gz, retention
PostBackup(cookies, t) ==
  /\ t >= now /\ t <= MaxTime
  /\ now' = t
  /\ req' = [op |-> "POST /backup", cookies |-> cookies]
  /\ IF ~requireAuth(cookies)
     THEN /\ res' = Redirect("POST /backup", "/login")
          /\ backups' = backups
     ELSE LET p == pruneBackups(backups \cup {BackupFile(t, "sqlite"),
                                              BackupFile(t, "sqlite.gz")})
          IN /\ backups' = p.files
             /\ res' = [op |-> "POST /backup", status |-> 200,
                        created |-> t, removed |-> p.removed]
  /\ UNCHANGED <<db, session>>

\* POST /backup/cleanup: every listed file, or the retention only
PostBackupCleanup(cookies, body) ==
  /\ req' = [op |-> "POST /backup/cleanup", cookies |-> cookies,
             body |-> body]
  /\ IF ~requireAuth(cookies)
     THEN /\ res' = Redirect("POST /backup/cleanup", "/login")
          /\ backups' = backups
     ELSE /\ backups' = IF body.wipe_all = "on"
                        THEN {f \in backups :
                                f.ext \notin {"sqlite", "sqlite.gz"}}
                        ELSE pruneBackups(backups).files
          /\ res' = Redirect("POST /backup/cleanup", "/importar")
  /\ UNCHANGED <<db, now, session>>

\* a file name that fails /^[\w.\-]+$/
InvalidName == BackupFile(0, "<invalid>")

\* GET /backup/download?file=...
DownloadReply(F, file) ==
  IF file.ext = "<invalid>" THEN [op |-> "GET /backup/download", status |-> 400]
  ELSE IF file \notin F THEN [op |-> "GET /backup/download", status |-> 404]
  ELSE [op |-> "GET /backup/download", status |-> 200, file |-> file]

GetBackupDownload(cookies, file) ==
  Get("GET /backup/download", cookies, [file |-> file],
      DownloadReply(backups, file))

\* POST /restore, the action of the form of GET /importar: the application
\* registers no route of that path and method, none of its middleware
\* replies to it, and Express answers 404
PostRestore(cookies, upload) ==
  /\ req' = [op |-> "POST /restore", cookies |-> cookies, upload |-> upload]
  /\ res' = [op |-> "POST /restore", status |-> 404]
  /\ UNCHANGED <<db, now, backups, session>>

\* equality of two exact fractions
SameValue(x, y) == x.sum * y.n = y.sum * x.n

(***************************************************************************)
(* Specification of the intake: submissions that vary the answers.         *)
(***************************************************************************)
NextIntake == \E b \in IntakeBodies : Submit(b, now)

SpecIntake == Init /\ [][NextIntake]_vars

(***************************************************************************)
(* Specification of the teaching assignments: submissions that vary the    *)
(* dimensional tuple, and imports of assignments.                          *)
(***************************************************************************)
TupleBodies ==
  {SubmitBody("1", "1", y, d, t, k, Absent, Answers("2", "0", "1")) :
     y \in {Absent, "1"}, d \in {"1", "2"}, t \in {"1", "2"},
     k \in {Absent, "", "1"}}

NextTeaching ==
  \/ \E b \in TupleBodies : Submit(b, now)
  \/ \E wb \in TeachingBooks : Import(AdminCookies, Upload(Absent, wb))

SpecTeaching == Init /\ [][NextTeaching]_vars

(***************************************************************************)
(* Specification of the submission: every requester, ids that identify no  *)
(* row, and a comment field sent twice.                                    *)
(***************************************************************************)
\* an id no row has
UnknownId == "9"

\* course, semester, school year, discipline, teacher, class group: ids of
\* seeded rows that no seeded teaching row combines
KnownIds == <<"1", "1", "1", "1", "2", Absent>>

\* the ids all known (without and with a class group), and each of the six
\* in turn unknown
SubmitIds ==
  {KnownIds, [KnownIds EXCEPT ![6] = "1"]}
    \cup {[KnownIds EXCEPT ![i] = UnknownId] : i \in 1..6}

SubmitBodies ==
  {SubmitBody(i[1], i[2], i[3], i[4], i[5], i[6], m, Answers("2", "0", "1")) :
     i \in SubmitIds, m \in {Absent, "bom", Repeated}}

NextSubmit ==
  \E c \in {NoCookies, AdminCookies} : \E b \in SubmitBodies :
     SubmitAs(c, b, now)

SpecSubmit == Init /\ [][NextSubmit]_vars

(***************************************************************************)
(* Specification of the administration: every admin route, requested with *)
(* and without the session cookie, between submissions.                    *)
(***************************************************************************)
AdminBodies ==
  {SubmitBody("1", "1", "1", "1", "1", "1", "bom", Answers("2", "0", "1"))}

\* a request without file (multer leaves req.file undefined)
NoFile ==
  [wb |-> [readable |-> FALSE, worksheets |-> <<>>],
   file |-> FALSE, wipe_all |-> Absent]

\* a file ExcelJS cannot load
UnreadableBook == [readable |-> FALSE, worksheets |-> <<>>]

\* a workbook without the sheet leccionacao
MissingSheetBook ==
  [readable |-> TRUE,
   worksheets |->
     <<Sheet("Cursos", <<<<"name">>, <<"Direito">>>>),
       Sheet("Docentes", <<<<"name">>, <<"Docente C">>>>),
       Sheet("Disciplinas", <<<<"course", "name">>>>)>>]

\* a complete workbook: a new course, and an assignment of a new teacher
GoodBook ==
  Workbook(<<<<"Direito">>>>, <<>>, <<>>,
           <<<<"Engenharia de Minas", "Topografia", "Docente C", "2025",
               "1o Semestre", "Turma A">>>>)

\* the uploads with the statement failure that meets them
AdminUploads ==
  {[upload |-> NoFile, fault |-> NoFault]}
    \cup {[upload |-> Upload(w, b), fault |-> NoFault] :
            w \in {Absent, "on"},
            b \in {UnreadableBook, MissingSheetBook, GoodBook}}
    \cup {[upload |-> Upload(w, GoodBook), fault |-> f] :
            w \in {Absent, "on"}, f \in Faults \ {NoFault}}

NoFilter == Query(Absent, Absent, Absent, Absent, Absent, Absent)

AdminQueries == {NoFilter, Query("1", Absent, "1", Absent, Absent, Absent)}

\* file names asked of /backup/download
DownloadNames ==
  {InvalidName, BackupFile(0, "sqlite"), BackupFile(1, "sqlite.gz")}

NextAdmin ==
  \/ \E b \in AdminBodies : Submit(b, now)
  \/ \E c \in RequesterCookies : \E u \in AdminUploads :
        ImportWith(c, u.upload, u.fault)
  \/ \E c \in RequesterCookies : \E q \in AdminQueries : GetStats(c, q)
  \/ \E c \in RequesterCookies : \E q \in AdminQueries : GetDashboard(c, q)
  \/ \E c \in RequesterCookies : \E q \in AdminQueries : GetDisciplinas(c, q)
  \/ \E c \in RequesterCookies : \E q \in AdminQueries : GetDocentes(c, q)
  \/ \E c \in RequesterCookies : \E q \in AdminQueries : GetExcel(c, q)
  \/ \E c \in RequesterCookies : \E q \in AdminQueries : GetPdf(c, q)
  \/ \E c \in RequesterCookies : GetAdmin(c, NoFilter)
  \/ \E c \in RequesterCookies : GetDashboardPage(c, NoFilter)
  \/ \E c \in RequesterCookies : GetImportar(c, NoFilter)
  \/ \E c \in RequesterCookies : PostBackup(c, now)
  \/ \E c \in RequesterCookies : \E w \in {Absent, "on"} :
        PostBackupCleanup(c, [wipe_all |-> w])
  \/ \E c \in RequesterCookies : \E f \in DownloadNames :
        GetBackupDownload(c, f)

SpecAdmin == Init /\ [][NextAdmin]_vars

(***************************************************************************)
(* Specification of the round trip: the reference entities of the store,   *)
(* written into the import sheets and imported again, between imports of   *)
(* new names and submissions.                                              *)
(***************************************************************************)
\* one sheet row per row of a named table
NameRows(T) == [i \in 1..Cardinality(T) |-> <<ById(T)[i].name>>]

\* one sheet row (course name, discipline name) per discipline
DisciplineRows(d) ==
  [i \in 1..Cardinality(d.discipline) |->
     LET x == ById(d.discipline)[i]
     IN <<(CHOOSE c \in d.course : c.id = x.course_id).name, x.name>>]

\* the workbook that lists the courses, teachers and disciplines of d
StoreBook(d) ==
  Workbook(NameRows(d.course), NameRows(d.teacher), DisciplineRows(d), <<>>)

NextRoundTrip ==
  \/ \E b \in AdminBodies : Submit(b, now)
  \/ \E w \in {Absent, "on"} : Import(AdminCookies, Upload(w, StoreBook(db)))
  \/ \E w \in {Absent, "on"} : Import(AdminCookies, Upload(w, GoodBook))
  \/ \E wb \in TeachingBooks : Import(AdminCookies, Upload(Absent, wb))
  \/ \E q \in AdminQueries : GetDisciplinas(AdminCookies, q)
  \/ \E q \in AdminQueries : GetDocentes(AdminCookies, q)

SpecRoundTrip == Init /\ [][NextRoundTrip]_vars

(***************************************************************************)
(* Specification of the totals: submissions with all, some and none of the *)
(* questions answered, and the two routes that report a total.             *)
(***************************************************************************)
TotalsBodies ==
  {SubmitBody("1", "1", "1", d, "1", "1", "bom", Answers(a[1], a[2], a[3])) :
     d \in {"1", "2"},
     a \in {<<"2", "0", "1">>, <<"1", Absent, Absent>>,
            <<Absent, Absent, Absent>>}}

TotalsQueries ==
  {Query(c, Absent, Absent, Absent, Absent, Absent) : c \in {Absent, "1", "2"}}

NextTotals ==
  \/ \E b \in TotalsBodies : Submit(b, now)
  \/ \E q \in TotalsQueries : GetDashboard(AdminCookies, q)
  \/ \E q \in TotalsQueries : GetPdf(AdminCookies, q)

SpecTotals == Init /\ [][NextTotals]_vars

(***************************************************************************)
(* Specification of the restarts: submissions, imports with and without    *)
(* the wipe option (of a workbook with rows and of one with the headers    *)
(* only) and starts of the process.                                        *)
(***************************************************************************)
HeadersBook == Workbook(<<>>, <<>>, <<>>, <<>>)

NextRestart ==
  \/ \E b \in AdminBodies : Submit(b, now)
  \/ \E w \in {Absent, "on"} : \E wb \in {GoodBook, HeadersBook} :
        Import(AdminCookies, Upload(w, wb))
  \/ Restart
  \/ \E c \in RequesterCookies : GetStats(c, NoFilter)

SpecRestart == Init /\ [][NextRestart]_vars

(***************************************************************************)
(* Specification of the restore: submissions, backups, and uploads of a    *)
(* backup of the store as it was seeded, or of a file that is no database. *)
(***************************************************************************)
SeededBackup == [readable |-> TRUE, db |-> seedOnce(EmptyDb)]
NoDatabase == [readable |-> FALSE, db |-> EmptyDb]

NextRestore ==
  \/ \E b \in AdminBodies : Submit(b, now)
  \/ \E c \in RequesterCookies : PostBackup(c, now)
  \/ \E c \in RequesterCookies : \E u \in {SeededBackup, NoDatabase} :
        PostRestore(c, u)
  \/ \E c \in RequesterCookies : GetImportar(c, NoFilter)
  \/ \E c \in RequesterCookies : GetStats(c, NoFilter)

SpecRestore == Init /\ [][NextRestore]_vars

(***************************************************************************)
(* Specification of the backups: backups taken at successive instants,     *)
(* cleanups with and without the wipe option, listings and downloads.      *)
(***************************************************************************)
NextBackups ==
  \E c \in RequesterCookies :
    \/ \E t \in {now, now + 1} : PostBackup(c, t)
    \/ \E w \in {Absent, "on"} : PostBackupCleanup(c, [wipe_all |-> w])
    \/ GetImportar(c, NoFilter)
    \/ \E f \in DownloadNames : GetBackupDownload(c, f)

SpecBackups == Init /\ [][NextBackups]_vars

(***************************************************************************)
(* Specification of the session: logins with right and wrong passwords,    *)
(* logout, and admin routes requested with the cookies of the browser or   *)
(* with a Cookie header written by hand.                                   *)
(***************************************************************************)
Passwords == {ADMIN_PASSWORD, "admin", Absent}

NextSession ==
  \/ \E b \in AdminBodies : Submit(b, now)
  \/ \E p \in Passwords : PostLogin(session, p)
  \/ GetLogout(session)
  \/ \E c \in {session, AdminCookies} : GetStats(c, NoFilter)
  \/ \E c \in {session, AdminCookies} : GetExcel(c, NoFilter)
  \/ \E c \in {session, AdminCookies} : GetAdmin(c, NoFilter)
  \/ \E c \in {session, AdminCookies} : GetImportar(c, NoFilter)
  \/ \E c \in {session, AdminCookies} : PostBackup(c, now)
  \/ \E c \in {session, AdminCookies} :
        PostBackupCleanup(c, [wipe_all |-> "on"])

SpecSession == Init /\ [][NextSession]_vars

(***************************************************************************)
(* Specification of the reports: submissions for several assignments, with *)
(* and without class group, and the aggregation queries.                   *)
(***************************************************************************)
ReportBodies ==
  {SubmitBody("1", "1", "1", d, "1", k, "bom", Answers(a[1], a[2], "1")) :
     d \in {"1", "2"}, k \in {Absent, "1"},
     a \in {<<"2", "0">>, <<"0", Absent>>}}

\* the filter combinations the requests of this specification carry
ReportQueries ==
  {Query(c, Absent, Absent, Absent, Absent, k) :
     c \in {Absent, "1"}, k \in {"", "1"}}

NextReport ==
  \/ \E b \in ReportBodies : Submit(b, now)
  \/ \E q \in ReportQueries : GetStats(AdminCookies, q)
  \/ \E q \in ReportQueries : GetDashboard(AdminCookies, q)
  \/ \E q \in ReportQueries : GetPdf(AdminCookies, q)

SpecReport == Init /\ [][NextReport]_vars

(***************************************************************************)
(* Specification of the timeline: submissions at successive instants, with *)
(* and without comment and class group, and the dashboard and stats        *)
(* queries.                                                                *)
(***************************************************************************)
TimelineBodies ==
  {SubmitBody("1", "1", "1", "1", "1", k, m, Answers("2", "0", "1")) :
     k \in {Absent, "1"}, m \in {Absent, "", "bom", "mau"}}

TimelineQueries ==
  {Query(Absent, Absent, Absent, Absent, Absent, k) : k \in {Absent, "1"}}

NextTimeline ==
  \/ \E b \in TimelineBodies : \E t \in {now, now + 1} : Submit(b, t)
  \/ \E q \in TimelineQueries : GetStats(AdminCookies, q)
  \/ \E q \in TimelineQueries : GetDashboard(AdminCookies, q)

SpecTimeline == Init /\ [][NextTimeline]_vars

\* every combination of the six filters over the ids of the seeded rows
AllQueries ==
  {Query(c, s, d, t, y, k) :
     c \in {Absent, "1", "2"}, s \in {Absent, "1"}, d \in {Absent, "1", "2"},
     t \in {Absent, "1", "2"}, y \in {Absent, "1"}, k \in {Absent, "1"}}

(***************************************************************************)
(* Properties of the reports (SpecReport).                                 *)
(***************************************************************************)
\* a filter that is set agrees with the column; one that is not set excludes
\* nothing
Agrees(param, col) == param = NULL \/ param = col

\* the stored responses whose teaching agrees with every filter that is set
MatchingResponses(d, query) ==
  {r \in d.survey_response :
     \E t \in d.teaching : \E disc \in d.discipline :
        /\ t.id = r.teaching_id
        /\ disc.id = t.discipline_id
        /\ Agrees(OrNull(query.course_id), disc.course_id)
        /\ Agrees(OrNull(query.semester_id), t.semester_id)
        /\ Agrees(OrNull(query.discipline_id), t.discipline_id)
        /\ Agrees(OrNull(query.teacher_id), t.teacher_id)
        /\ Agrees(OrNull(query.school_year_id), t.school_year_id)
        /\ Agrees(OrNull(query.class_group_id), t.class_group_id)}

MatchingAnswers(d, query) ==
  LET R == Ids(MatchingResponses(d, query))
  IN {a \in d.survey_answer : a.response_id \in R}

AggregationOps == {"GET /api/stats", "GET /api/dashboard", "GET /export/pdf"}

\* the reply carries some average
ReturnsAverage(r) ==
  \/ r.op = "GET /api/stats" /\ r.rows # {}
  \/ r.op = "GET /api/dashboard" /\ (r.areas # {} \/ r.avgOverall.n > 0)
  \/ r.op = "GET /export/pdf" /\ (r.byQuestion # {} \/ r.media_global.n > 0)

\* the insufficient-sample indicator the report page reads from the reply
InsufficientSample(r, count) ==
  /\ {"insufficient", "n", "threshold"} \subseteq DOMAIN r
  /\ r.insufficient = TRUE
  /\ r.n = count
  /\ r.threshold = ANON

\* C1: an aggregation reply for filters that match at least one and fewer than
\* ANON responses returns no average and is the insufficient-sample indicator
\* carrying the matching count and the threshold
C1_BelowThresholdWithheld ==
  (res.op \in AggregationOps /\ res.status = 200) =>
     LET count == Cardinality(MatchingResponses(db, req.query))
     IN (count >= 1 /\ count < ANON) =>
          (~ReturnsAverage(res) /\ InsufficientSample(res, count))

\* the unweighted mean of the per-question averages of an area, each question
\* counted once: the sum over the questions of sum_q/n_q divided by the
\* number k of questions, as the fraction num/den with den = k * product n_q
RECURSIVE ProductOfCounts(_)
ProductOfCounts(rows) ==
  IF rows = {} THEN 1
  ELSE LET x == CHOOSE y \in rows : TRUE
       IN x.avg_val.n * ProductOfCounts(rows \ {x})

RECURSIVE SumOfAverages(_, _)
SumOfAverages(rows, all) ==
  IF rows = {} THEN 0
  ELSE LET x == CHOOSE y \in rows : TRUE
       IN x.avg_val.sum * ProductOfCounts(all \ {x})
            + SumOfAverages(rows \ {x}, all)

MeanOfQuestionMeans(d, rows, area) ==
  LET mine == {r \in rows : AreaOf(d, r.question_id) = area}
  IN [sum |-> SumOfAverages(mine, mine),
      n |-> Cardinality(mine) * ProductOfCounts(mine)]

\* C3: for every filter combination, the average the dashboard reports for an
\* area is the unweighted mean of the per-question averages of that area
C3_AreaIsMeanOfQuestionMeans ==
  \A q \in AllQueries :
     \A row \in DashboardReply(db, q).areas :
        SameValue(row.media,
                  MeanOfQuestionMeans(db, StatsReply(db, q).rows, row.area))

\* C4: for every filter combination, /api/stats returns for each question
\* answered in some matching response the sum of its stored values over the
\* matching responses divided by their number, and no row for other questions
C4_QuestionAverageOverMatching ==
  \A q \in AllQueries :
     LET A == MatchingAnswers(db, q)
         rows == StatsReply(db, q).rows
     IN \A qid \in QuestionIds :
          LET mine == {a \in A : a.question_id = qid}
          IN IF mine = {}
             THEN \A row \in rows : row.question_id # qid
             ELSE \E row \in rows :
                     /\ row.question_id = qid
                     /\ SameValue(row.avg_val, Avg(mine))

\* C5: for every filter combination, the responses that contribute to the
\* aggregation results are exactly the stored responses whose teaching agrees
\* with every filter that is set
C5_FiltersSelectMatching ==
  \A q \in AllQueries :
     /\ SelectedResponses(db, q) = MatchingResponses(db, q)
     /\ DashboardReply(db, q).totalResponses
          = Cardinality(MatchingResponses(db, q))

(***************************************************************************)
(* Properties of the teaching assignments (SpecTeaching).                  *)
(***************************************************************************)
TupleOf(t) ==
  <<t.teacher_id, t.discipline_id, t.semester_id, t.school_year_id,
    t.class_group_id>>

\* C6: no two teaching rows have the same (teacher, discipline, semester,
\* school year, class group), an absent year or class counting as a value
C6_TeachingTupleUnique ==
  \A x \in db.teaching : \A y \in db.teaching :
     TupleOf(x) = TupleOf(y) => x.id = y.id

\* C7: two responses submitted for the same tuple reference the same teaching
\* row, and that row is the only one with the tuple
C7_SameTupleOneTeaching ==
  \A r1 \in db.survey_response : \A r2 \in db.survey_response :
     \A t1 \in db.teaching : \A t2 \in db.teaching :
        (r1.id # r2.id /\ t1.id = r1.teaching_id /\ t2.id = r2.teaching_id
           /\ TupleOf(t1) = TupleOf(t2))
        => /\ r1.teaching_id = r2.teaching_id
           /\ Cardinality({t \in db.teaching : TupleOf(t) = TupleOf(t1)}) = 1

(***************************************************************************)
(* Properties of the intake (SpecIntake).                                  *)
(***************************************************************************)
\* the request just handled is a POST /submit that passed the field check
SubmitHandled ==
  /\ req.op = "POST /submit"
  /\ ~(Falsy(req.body.course_id) \/ Falsy(req.body.semester_id)
         \/ Falsy(req.body.discipline_id) \/ Falsy(req.body.teacher_id))

\* the response row the last submission inserted
LastResponseId == db.seq["survey_response"]

AnswerRows(rid, qid) ==
  {a \in db.survey_answer : a.response_id = rid /\ a.question_id = qid}

\* the raw field is one of the three valid values
Valid012(raw) == raw \in {"0", "1", "2"}

\* the raw field is a number other than 0, 1, 2
OutOfRange(raw) == raw \in DOMAIN DigitValue /\ DigitValue[raw] \notin {0, 1, 2}

\* C2: a submission naming existing rows with at least one valid answer adds
\* exactly one response row and exactly the answer rows of the questions whose
\* submitted value is 0, 1 or 2, one each; nothing else is added or changed
C2_SubmitAddsExactlyValidRows ==
  [][(/\ req'.op = "POST /submit"
      /\ ~(Falsy(req'.body.course_id) \/ Falsy(req'.body.semester_id)
             \/ Falsy(req'.body.discipline_id) \/ Falsy(req'.body.teacher_id))
      /\ ToInteger(req'.body.course_id) \in Ids(db.course)
      /\ ToInteger(req'.body.semester_id) \in Ids(db.semester)
      /\ ToInteger(req'.body.discipline_id) \in Ids(db.discipline)
      /\ ToInteger(req'.body.teacher_id) \in Ids(db.teacher)
      /\ \E q \in QuestionIds : Valid012(req'.body.answers[q]))
     =>
     LET rid == db.seq["survey_response"] + 1
         added == db'.survey_answer \ db.survey_answer
     IN /\ db.survey_response \subseteq db'.survey_response
        /\ db.survey_answer \subseteq db'.survey_answer
        /\ Cardinality(db'.survey_response \ db.survey_response) = 1
        /\ \A a \in added :
              /\ a.response_id = rid
              /\ Valid012(req'.body.answers[a.question_id])
              /\ a.value = DigitValue[req'.body.answers[a.question_id]]
        /\ \A q \in QuestionIds :
              Valid012(req'.body.answers[q]) =>
                Cardinality({a \in added : a.question_id = q}) = 1
    ]_vars

\* C8: every stored answer value is 0, 1 or 2, and a submitted value that is
\* another number stores no answer row for its question
C8_AnswerValueDomain ==
  /\ \A a \in db.survey_answer : a.value \in {0, 1, 2}
  /\ SubmitHandled =>
       \A q \in QuestionIds :
          OutOfRange(req.body.answers[q]) => AnswerRows(LastResponseId, q) = {}

C8_Witness ==
  /\ SubmitHandled
  /\ res.status = 200
  /\ OutOfRange(req.body.answers[1])
  /\ \E r \in db.survey_response : r.id = LastResponseId
  /\ AnswerRows(LastResponseId, 3) # {}

\* C9: after a submission, a question whose field is missing, empty or not
\* 0, 1, 2 has no answer row, the response row is stored and every other
\* question has its answer stored
C9_InvalidAnswerSkipped ==
  (SubmitHandled /\ res.status = 200) =>
     /\ \E r \in db.survey_response : r.id = LastResponseId
     /\ \A q \in QuestionIds :
          IF Valid012(req.body.answers[q])
          THEN \E a \in AnswerRows(LastResponseId, q) :
                  a.value = DigitValue[req.body.answers[q]]
          ELSE AnswerRows(LastResponseId, q) = {}

\* C10: a submission with course, semester, discipline or teacher missing or
\* empty is answered 400 and leaves teaching, survey_response and
\* survey_answer as they were
C10_MissingFieldRejected ==
  [][(/\ req'.op = "POST /submit"
      /\ (Falsy(req'.body.course_id) \/ Falsy(req'.body.semester_id)
            \/ Falsy(req'.body.discipline_id) \/ Falsy(req'.body.teacher_id)))
     => /\ res'.status = 400
        /\ db'.teaching = db.teaching
        /\ db'.survey_response = db.survey_response
        /\ db'.survey_answer = db.survey_answer
    ]_vars

C10_Witness ==
  /\ req.op = "POST /submit"
  /\ Falsy(req.body.course_id)
  /\ ~Falsy(req.body.teacher_id)
  /\ res.status = 400
  /\ db.survey_response # {}

(***************************************************************************)
(* Properties of the submission (SpecSubmit).                              *)
(***************************************************************************)
\* an optional id that is absent or empty names no row and is not looked up
KnownOrUnset(v, T) == Falsy(v) \/ ToInteger(v) \in Ids(T)

\* C11: a submission one of whose six ids identifies no row leaves teaching,
\* survey_response and survey_answer as they were; a submission (with a
\* single comment field) whose ids all exist and whose tuple no teaching row
\* has adds that teaching row and a response that references it
C11_UnknownIdStoresNothing ==
  [][(/\ req'.op = "POST /submit"
      /\ ~(Falsy(req'.body.course_id) \/ Falsy(req'.body.semester_id)
             \/ Falsy(req'.body.discipline_id) \/ Falsy(req'.body.teacher_id)))
     =>
     LET b == req'.body
         tup == <<ToInteger(b.teacher_id), ToInteger(b.discipline_id),
                  ToInteger(b.semester_id),
                  IF Falsy(b.school_year_id) THEN NULL
                  ELSE ToInteger(b.school_year_id),
                  IF Falsy(b.class_group_id) THEN NULL
                  ELSE ToInteger(b.class_group_id)>>
         known == /\ ToInteger(b.course_id) \in Ids(db.course)
                  /\ ToInteger(b.semester_id) \in Ids(db.semester)
                  /\ ToInteger(b.discipline_id) \in Ids(db.discipline)
                  /\ ToInteger(b.teacher_id) \in Ids(db.teacher)
                  /\ KnownOrUnset(b.school_year_id, db.school_year)
                  /\ KnownOrUnset(b.class_group_id, db.class_group)
     IN IF ~known
        THEN /\ db'.teaching = db.teaching
             /\ db'.survey_response = db.survey_response
             /\ db'.survey_answer = db.survey_answer
        ELSE (b.comment # Repeated
                /\ \A x \in db.teaching : TupleOf(x) # tup)
             => \E x \in db'.teaching \ db.teaching :
                   /\ TupleOf(x) = tup
                   /\ \E r \in db'.survey_response \ db.survey_response :
                         r.teaching_id = x.id
    ]_vars

\* C12: a submission that passed the field check either succeeds, and then
\* its response row is stored with the answer row of every question answered
\* 0, 1 or 2, or fails, and then teaching, survey_response and survey_answer
\* are as they were before the request
C12_SubmitAllOrNothing ==
  [][(/\ req'.op = "POST /submit"
      /\ ~(Falsy(req'.body.course_id) \/ Falsy(req'.body.semester_id)
             \/ Falsy(req'.body.discipline_id) \/ Falsy(req'.body.teacher_id)))
     =>
     IF res'.status = 200
     THEN \E r \in db'.survey_response \ db.survey_response :
             \A q \in QuestionIds :
                Valid012(req'.body.answers[q]) =>
                  \E a \in db'.survey_answer :
                     a.response_id = r.id /\ a.question_id = q
     ELSE /\ db'.teaching = db.teaching
          /\ db'.survey_response = db.survey_response
          /\ db'.survey_answer = db.survey_answer
    ]_vars

\* C13: what a submission stores is the same whoever sends it: for every
\* requester the handler applied to the same database, form body and time
\* yields the database the request produced; a response row has no field
\* other than id, teaching_id, submitted_at, comment, and an answer row none
\* other than id, response_id, question_id, value
C13_StoredRowsIndependentOfRequester ==
  [][(req'.op = "POST /submit")
     => /\ \A c \in RequesterCookies :
              SubmitHandler(db, c, req'.body, now').db = db'
        /\ \A r \in db'.survey_response :
              DOMAIN r = {"id", "teaching_id", "submitted_at", "comment"}
        /\ \A a \in db'.survey_answer :
              DOMAIN a = {"id", "response_id", "question_id", "value"}
    ]_vars

\* an admin's submission with a comment is stored beside another response
\* with the same teaching and comment
C13_Witness ==
  /\ req.op = "POST /submit"
  /\ req.cookies = AdminCookies
  /\ res.status = 200
  /\ req.body.comment = "bom"
  /\ \E r1 \in db.survey_response : \E r2 \in db.survey_response :
        /\ r1.id = LastResponseId
        /\ r2.id # r1.id
        /\ r1.comment = "bom"
        /\ r2.comment = r1.comment
        /\ r2.teaching_id = r1.teaching_id

ReadOnlyOps ==
  {"GET /api/stats", "GET /api/dashboard", "GET /api/disciplinas",
   "GET /api/docentes", "GET /export/excel", "GET /export/pdf"}

\* C15: a request to /api/stats, /api/dashboard, /api/disciplinas,
\* /api/docentes, /export/excel or /export/pdf leaves every table, and the
\* AUTOINCREMENT counters, as they were
C15_QueriesLeaveStoreUnchanged ==
  [][(req'.op \in ReadOnlyOps) => db' = db]_vars

\* an export has listed a stored response
C15_Witness ==
  /\ req.op = "GET /export/excel"
  /\ req.query.course_id = "1"
  /\ res.status = 200
  /\ res.rows # <<>>
  /\ db.survey_response # {}

(***************************************************************************)
(* Properties of the timeline (SpecTimeline).                              *)
(***************************************************************************)
\* the sum of the per-day counts of a time series
RECURSIVE SumOfDays(_)
SumOfDays(rows) ==
  IF rows = {} THEN 0
  ELSE LET x == CHOOSE y \in rows : TRUE IN x.c + SumOfDays(rows \ {x})

\* the teachers of the teaching rows a set of responses references
TeachersOf(d, R) ==
  {t.teacher_id : t \in {x \in d.teaching : \E r \in R : r.teaching_id = x.id}}

\* C16: for every filter combination, the dashboard's response count is the
\* number of stored responses whose teaching agrees with every filter that
\* is set, its teacher count the number of distinct teachers among them, and
\* its per-day counts add up to the response count
C16_CountsOverMatching ==
  \A q \in AllQueries :
     LET r == DashboardReply(db, q)
         M == MatchingResponses(db, q)
     IN /\ r.totalResponses = Cardinality(M)
        /\ r.teachersEvaluated = Cardinality(TeachersOf(db, M))
        /\ SumOfDays(r.timeseries) = r.totalResponses

\* the stored responses that agree with the filters and carry a comment
MatchingComments(d, query) ==
  {r \in MatchingResponses(d, query) : r.comment # NULLTEXT /\ r.comment # ""}

\* a comment list that holds one entry per response of R, with its comment
\* and timestamp, later submissions first
ListsNewestFirst(L, R) ==
  /\ Len(L) = Cardinality(R)
  /\ \A r \in R : \E i \in 1..Len(L) :
        L[i] = [comment |-> r.comment, submitted_at |-> r.submitted_at]
  /\ \A i \in 1..Len(L) : \E r \in R :
        L[i] = [comment |-> r.comment, submitted_at |-> r.submitted_at]
  /\ \A i \in 1..Len(L) : \A j \in 1..Len(L) :
        i < j => L[i].submitted_at >= L[j].submitted_at

\* C17: for every filter combination, the comment lists of /api/stats and
\* /api/dashboard hold exactly the stored responses that agree with the
\* filters and have a non-empty comment, each with its timestamp, and no
\* comment stands after one submitted earlier
C17_CommentsNewestFirst ==
  \A q \in AllQueries :
     /\ ListsNewestFirst(StatsReply(db, q).comments, MatchingComments(db, q))
     /\ ListsNewestFirst(DashboardReply(db, q).comments,
                         MatchingComments(db, q))

(***************************************************************************)
(* Properties of the import and of the authorization (SpecAdmin).          *)
(***************************************************************************)
RequiredSheets == {"cursos", "docentes", "disciplinas", "leccionacao"}

\* the import of the request cannot complete: the file cannot be read, a
\* required sheet is missing, or a statement fails while rows are written
ImportFails(r) ==
  \/ ~r.upload.wb.readable
  \/ \E n \in RequiredSheets :
        \A i \in DOMAIN r.upload.wb.worksheets :
           ToLowerCase(r.upload.wb.worksheets[i].name) # n
  \/ r.fault # "none"

\* C18: an admin's import that fails, with or without the wipe option,
\* leaves the whole database as it was and renders an error message
C18_FailedImportChangesNothing ==
  [][(/\ req'.op = "POST /importar"
      /\ req'.cookies.ispt_admin = "1"
      /\ req'.upload.file
      /\ ImportFails(req'))
     => /\ db' = db
        /\ res'.status = 200
        /\ res'.page \in {"error", "missing sheets"}
    ]_vars

\* a wiping import of a complete workbook failed at its last insert while
\* responses were stored, and they are still there
C18_Witness ==
  /\ req.op = "POST /importar"
  /\ req.cookies.ispt_admin = "1"
  /\ req.upload.wipe_all = "on"
  /\ req.upload.wb.readable
  /\ req.fault = "teaching rows"
  /\ res.page = "error"
  /\ db.survey_response # {}
  /\ db.survey_answer # {}

\* C19: a POST /importar without the admin session cookie is answered 403
\* and leaves the database as it was
C19_ImportWithoutCookieIs403 ==
  [][(req'.op = "POST /importar" /\ req'.cookies.ispt_admin # "1")
     => /\ res'.status = 403
        /\ db' = db
    ]_vars

\* the routes registered with requireAuth
AdminOps ==
  {"GET /admin", "GET /dashboard", "GET /importar", "POST /importar",
   "GET /api/stats", "GET /api/dashboard", "GET /api/disciplinas",
   "GET /api/docentes", "GET /export/excel", "GET /export/pdf",
   "POST /backup", "POST /backup/cleanup", "GET /backup/download"}

\* C20: a request to an admin route whose session cookie is missing or is
\* not '1' gets the redirect to /login and nothing else, and leaves the
\* database and the backup files as they were
C20_NoCookieRedirectsToLogin ==
  [][(req'.op \in AdminOps /\ req'.cookies.ispt_admin # "1")
     => /\ res' = [op |-> req'.op, status |-> 302, location |-> "/login"]
        /\ db' = db
        /\ backups' = backups
    ]_vars

\* a cleanup of every backup was requested with a stale cookie while
\* backups and responses existed: it was redirected and they are still there
C20_Witness ==
  /\ req.op = "POST /backup/cleanup"
  /\ req.cookies.ispt_admin = "0"
  /\ req.body.wipe_all = "on"
  /\ res.status = 302
  /\ res.location = "/login"
  /\ backups # {}
  /\ db.survey_response # {}

(***************************************************************************)
(* Properties of the session (SpecSession).                                *)
(***************************************************************************)
\* C21: the session becomes admin only by a POST /login with the configured
\* password; a login with another password leaves the session as it was;
\* and while the session is not admin (before the first successful login,
\* and after a logout until the next one) every admin route is answered
\* with the redirect to /login
C21_AdminOnlyByLogin ==
  [][/\ (session'.ispt_admin = "1" /\ session.ispt_admin # "1")
          => (req'.op = "POST /login" /\ req'.body.password = "ispt-admin")
     /\ (req'.op = "POST /login" /\ req'.body.password # "ispt-admin")
          => session' = session
     /\ (req'.op \in AdminOps /\ session.ispt_admin # "1")
          => res' = [op |-> req'.op, status |-> 302, location |-> "/login"]
    ]_vars

(***************************************************************************)
(* Properties of the round trip (SpecRoundTrip).                           *)
(***************************************************************************)
CourseNames(d) == {c.name : c \in d.course}

TeacherNames(d) == {t.name : t \in d.teacher}

\* the (course name, discipline name) pairs of the store
DisciplineNames(d) ==
  {<<c.name, x.name>> : <<c, x>> \in
     {p \in d.course \X d.discipline : p[1].id = p[2].course_id}}

\* every course and teacher name, and every discipline of a course, is
\* stored in one row only
StoredOnce(d) ==
  /\ \A x \in d.course : \A y \in d.course : x.name = y.name => x.id = y.id
  /\ \A x \in d.teacher : \A y \in d.teacher : x.name = y.name => x.id = y.id
  /\ \A x \in d.discipline : \A y \in d.discipline :
        (x.course_id = y.course_id /\ x.name = y.name) => x.id = y.id

SameReferenceNames(d, e) ==
  /\ CourseNames(d) = CourseNames(e)
  /\ TeacherNames(d) = TeacherNames(e)
  /\ DisciplineNames(d) = DisciplineNames(e)

\* the courses, teachers and disciplines listed by the sheets of a workbook
ListsStore(wb, d) ==
  /\ Len(wb.worksheets) = 4
  /\ {r[1] : r \in {wb.worksheets[1].rows[i] :
                       i \in 2..Len(wb.worksheets[1].rows)}} = CourseNames(d)
  /\ {r[1] : r \in {wb.worksheets[2].rows[i] :
                       i \in 2..Len(wb.worksheets[2].rows)}} = TeacherNames(d)
  /\ {wb.worksheets[3].rows[i] : i \in 2..Len(wb.worksheets[3].rows)}
       = DisciplineNames(d)
  /\ Len(wb.worksheets[4].rows) = 1

\* C22: an import of a workbook that lists the course, teacher and
\* (course, discipline) names of the store leaves these three sets of names
\* as they were, each name in one row, and so does a second import of the
\* same workbook
C22_ImportOfStoredNamesAddsNone ==
  [][(/\ req'.op = "POST /importar"
      /\ req'.upload.file
      /\ req'.upload.wb.readable
      /\ ListsStore(req'.upload.wb, db))
     => /\ res'.page = "ok"
        /\ SameReferenceNames(db', db)
        /\ StoredOnce(db')
        /\ LET again == ImportRun(db', req'.cookies, req'.upload, "none").db
           IN SameReferenceNames(again, db) /\ StoredOnce(again)
    ]_vars

\* the names of a store with three courses and three teachers were imported
\* without the wipe option
C22_Witness ==
  /\ req.op = "POST /importar"
  /\ req.upload.wipe_all # "on"
  /\ res.page = "ok"
  /\ ListsStore(req.upload.wb, db)
  /\ Cardinality(db.course) = 3
  /\ Cardinality(db.teacher) = 3
  /\ Cardinality(db.discipline) = 2

(***************************************************************************)
(* Properties of the backups (SpecBackups).                                *)
(***************************************************************************)
SqliteFiles(F) == {f \in F : f.ext = "sqlite"}

\* F is what a retention of n leaves of the files B and k the number it
\* returns: the n most recent .sqlite files of B (all of them when B has no
\* more), each removed .sqlite gone with its .sqlite.gz, every other file
\* kept, and k the number of .sqlite files removed
Retained(B, F, n, k) ==
  LET removed == SqliteFiles(B) \ SqliteFiles(F)
  IN /\ F \subseteq B
     /\ Cardinality(SqliteFiles(F)) <= n
     /\ Cardinality(SqliteFiles(F))
          = (IF Cardinality(SqliteFiles(B)) < n
             THEN Cardinality(SqliteFiles(B)) ELSE n)
     /\ \A x \in SqliteFiles(F) : \A y \in removed : x.stamp > y.stamp
     /\ \A y \in removed : [stamp |-> y.stamp, ext |-> "sqlite.gz"] \notin F
     /\ \A f \in B \ F : \E y \in removed : f.stamp = y.stamp
     /\ k = Cardinality(removed)

Range(arr) == {arr[k] : k \in DOMAIN arr}

StrongCodes(r) ==
  {(CHOOSE sq \in db.survey_question : sq.id = q.id).code :
     q \in {x \in r.byQuestion : 2 * x.avg_val.sum >= 3 * x.avg_val.n}}

WeakCodes(r) ==
  {(CHOOSE sq \in db.survey_question : sq.id = q.id).code :
     q \in {x \in r.byQuestion : x.avg_val.sum < x.avg_val.n}}

\* C24: in the trends of an exported document, when some question has a mean
\* of 1.5 or more or a mean below 1.0, the strengths are exactly the
\* questions with mean of 1.5 or more and the weaknesses exactly those with
\* mean below 1.0; the three highest and the three lowest are listed when no
\* question is on the far side of either threshold
C24_TrendsFollowThresholds ==
  (res.op = "GET /export/pdf" /\ res.status = 200) =>
    IF StrongCodes(res) \cup WeakCodes(res) # {}
    THEN /\ Range(res.trends.strengths) = StrongCodes(res)
         /\ Range(res.trends.weaknesses) = WeakCodes(res)
    ELSE /\ Len(res.trends.strengths)
              = (IF Cardinality(res.byQuestion) < 3
                 THEN Cardinality(res.byQuestion) ELSE 3)
         /\ Len(res.trends.weaknesses) = Len(res.trends.strengths)

\* the reading of the rule that the code follows: each list falls back to
\* three questions on its own, when no question is on its side of its
\* threshold
TrendsFallBackPerList ==
  (res.op = "GET /export/pdf" /\ res.status = 200) =>
    /\ StrongCodes(res) # {}
          => Range(res.trends.strengths) = StrongCodes(res)
    /\ WeakCodes(res) # {}
          => Range(res.trends.weaknesses) = WeakCodes(res)
    /\ StrongCodes(res) = {}
          => Len(res.trends.strengths)
               = (IF Cardinality(res.byQuestion) < 3
                  THEN Cardinality(res.byQuestion) ELSE 3)
    /\ WeakCodes(res) = {}
          => Len(res.trends.weaknesses)
               = (IF Cardinality(res.byQuestion) < 3
                  THEN Cardinality(res.byQuestion) ELSE 3)

\* C30: in an exported document no question is both among the strengths and
\* among the weaknesses, in the trends and in the conclusions
C30_StrengthsAndWeaknessesDisjoint ==
  (res.op = "GET /export/pdf" /\ res.status = 200) =>
    /\ Range(res.trends.strengths) \cap Range(res.trends.weaknesses) = {}
    /\ Range(res.conclusions.strengths)
          \cap Range(res.conclusions.weaknesses) = {}

(***************************************************************************)
(* Properties of the restore (SpecRestore).                                *)
(***************************************************************************)
\* C25: a POST /restore by the administrator replaces the store with the
\* uploaded backup, in one piece: with a backup that is a database the
\* store is the uploaded one afterwards, and with a file that cannot be
\* restored the store is as it was
C25_RestoreReplacesStore ==
  [][(req'.op = "POST /restore" /\ req'.cookies.ispt_admin = "1")
       => IF req'.upload.readable
          THEN db' = req'.upload.db
          ELSE db' = db
    ]_vars

(***************************************************************************)
(* Properties of the seeding (SpecRestart).                                *)
(***************************************************************************)
\* no two rows of T agree on the field f
NoneTwice(T, f) == \A x \in T : \A y \in T : x[f] = y[f] => x = y

\* the names and codes alone: they stay single, because the second seeding
\* stops at its first semester
SeedNamesStoredOnce ==
  /\ NoneTwice(db.survey_question, "code")
  /\ NoneTwice(db.semester, "name")
  /\ NoneTwice(db.school_year, "name")
  /\ NoneTwice(db.class_group, "name")

\* C26: every start of the process seeds without an exception, and no
\* question code, semester name, school year name or class group name is
\* ever stored twice
C26_SeedsOnceWithoutError ==
  /\ res.op = "restart" => res.status = "listening"
  /\ SeedNamesStoredOnce

(***************************************************************************)
(* Properties of the wipe option (SpecAdmin).                              *)
(***************************************************************************)
WipedTables ==
  {"survey_answer", "survey_response", "teaching", "discipline", "teacher",
   "course"}

AuxiliaryTables == {"semester", "school_year", "class_group", "survey_question"}

\* C27: an import with the wipe option that succeeds leaves none of the
\* answers, responses, teaching rows, disciplines, teachers and courses
\* stored before it, and the semesters, school years, class groups and
\* questions as they were; an import without the option, whatever its
\* outcome, leaves every row that was stored
C27_WipeRemovesSixTablesOnly ==
  [][/\ (req'.op = "POST /importar" /\ res'.status = 200
           /\ res'.page = "ok" /\ req'.upload.wipe_all = "on")
          => /\ \A t \in WipedTables : db'[t] \cap db[t] = {}
             /\ \A t \in AuxiliaryTables : db'[t] = db[t]
     /\ (req'.op = "POST /importar" /\ req'.upload.wipe_all # "on")
          => \A t \in WipedTables \cup AuxiliaryTables :
                db[t] \subseteq db'[t]
    ]_vars

\* a wipe import has succeeded on a store that held a response with its
\* answers, and has stored rows of its own
C27_Witness ==
  /\ req.op = "POST /importar"
  /\ req.upload.wipe_all = "on"
  /\ res.status = 200
  /\ res.page = "ok"
  /\ db.seq["survey_answer"] > 0
  /\ db.survey_answer = {}
  /\ db.survey_response = {}
  /\ db.teaching # {}
  /\ db.course # {}

(***************************************************************************)
(* Referential integrity (SpecAdmin).                                      *)
(***************************************************************************)
\* C28: every answer refers to a stored response and a stored question,
\* every response to a stored teaching row, and every teaching row to a
\* stored teacher, discipline and semester
C28_ReferentialIntegrity ==
  /\ \A a \in db.survey_answer :
        /\ a.response_id \in {r.id : r \in db.survey_response}
        /\ a.question_id \in {q.id : q \in db.survey_question}
  /\ \A r \in db.survey_response :
        r.teaching_id \in {t.id : t \in db.teaching}
  /\ \A t \in db.teaching :
        /\ t.teacher_id \in {x.id : x \in db.teacher}
        /\ t.discipline_id \in {x.id : x \in db.discipline}
        /\ t.semester_id \in {x.id : x \in db.semester}

\* a submission has named a teacher that a wipe import had deleted, on a
\* store that holds the teaching rows of the import
C28_Witness ==
  /\ req.op = "POST /submit"
  /\ req.body.teacher_id = "1"
  /\ 1 \notin {x.id : x \in db.teacher}
  /\ db.teacher # {}
  /\ db.teaching # {}

(***************************************************************************)
(* Agreement of the totals of the document and of the dashboard            *)
(* (SpecTotals).                                                           *)
(***************************************************************************)
\* C29: the total of responses of an exported document is the
\* totalResponses the dashboard reports for the same filters on the same
\* store, and the other way round
C29_PdfTotalIsDashboardTotal ==
  /\ (res.op = "GET /export/pdf" /\ res.status = 200)
        => res.total_resp = DashboardReply(db, req.query).totalResponses
  /\ (res.op = "GET /api/dashboard" /\ res.status = 200)
        => res.totalResponses = PdfReply(db, req.query).total_resp

\* the same, on stores where every response has an answer
TotalsAgreeWhenAnswered ==
  (\A r \in db.survey_response :
      \E a \in db.survey_answer : a.response_id = r.id)
    => C29_PdfTotalIsDashboardTotal

====
